---- MODULE Spec2Model ----
(***************************************************************************)
(* houclip: the snippet repository and catalog (scripts/python/houclip).   *)
(*                                                                         *)
(* A text is a sequence of glyphs.  A glyph is one character ("a", ";",    *)
(* "|", " ", ...) or one token of ordinary characters that the program     *)
(* never looks into (a category name, a prefix label, the hex form of a    *)
(* uuid, a payload block).  The index files hold encoded CSV lines, the    *)
(* content files hold glyph sequences.                                     *)
(***************************************************************************)
EXTENDS Naturals, Sequences, FiniteSets, TLC

(***************************************************************************)
(* Bounds of the model.                                                    *)
(***************************************************************************)
\* Number of uuid1() tokens handed to snippets in one behaviour.
MaxUuid == 2
\* Number of out-of-band changes of the repository in one behaviour.
MaxEnv == 1
\* The configured display width of a description (houclip.conf, key
\* max_desc_len; config.py ships 128 as its default).
max_desc_len == 3
\* The configured display width of the tags (key max_tags_len; config.py
\* ships 32 as its default).
max_tags_len == 2

(***************************************************************************)
(* Texts: the str methods the program uses.                                *)
(***************************************************************************)
CodePoint(c) ==
    CASE c = "\t" -> 9
      [] c = "\n" -> 10
      [] c = " " -> 32
      [] c = "\"" -> 34
      [] c = "," -> 44
      [] c = ";" -> 59
      [] c = "a" -> 97
      [] c = "b" -> 98
      [] c = "|" -> 124
      [] OTHER -> 65

IsSpace(c) == c \in {" ", "\t", "\n"}

RECURSIVE rstrip(_)
rstrip(s) ==
    IF s = <<>> THEN s
    ELSE IF IsSpace(s[Len(s)]) THEN rstrip(SubSeq(s, 1, Len(s) - 1))
    ELSE s

RECURSIVE lstrip(_)
lstrip(s) ==
    IF s = <<>> THEN s
    ELSE IF IsSpace(s[1]) THEN lstrip(Tail(s))
    ELSE s

strip(s) == lstrip(rstrip(s))

\* s.split(sep): always at least one piece.
RECURSIVE split(_, _)
split(s, sep) ==
    IF \A i \in 1..Len(s) : s[i] # sep THEN <<s>>
    ELSE LET k == CHOOSE i \in 1..Len(s) :
                      s[i] = sep /\ \A j \in 1..(i - 1) : s[j] # sep
         IN <<SubSeq(s, 1, k - 1)>> \o split(SubSeq(s, k + 1, Len(s)), sep)

\* sep.join(parts)
RECURSIVE join(_, _)
join(parts, sep) ==
    IF parts = <<>> THEN <<>>
    ELSE IF Len(parts) = 1 THEN parts[1]
    ELSE parts[1] \o <<sep>> \o join(Tail(parts), sep)

\* s.partition(sep)[0]
partition_head(s, sep) ==
    IF \A i \in 1..Len(s) : s[i] # sep THEN s
    ELSE LET k == CHOOSE i \in 1..Len(s) :
                      s[i] = sep /\ \A j \in 1..(i - 1) : s[j] # sep
         IN SubSeq(s, 1, k - 1)

\* s[0:n]
slice(s, n) == IF Len(s) <= n THEN s ELSE SubSeq(s, 1, n)

\* f'{s:<{width}}'
ljust(s, width) ==
    IF Len(s) >= width THEN s
    ELSE s \o [i \in 1..(width - Len(s)) |-> " "]

\* a < b for str: by code point, a proper prefix first.
RECURSIVE str_less(_, _)
str_less(a, b) ==
    IF b = <<>> THEN FALSE
    ELSE IF a = <<>> THEN TRUE
    ELSE IF a[1] # b[1] THEN CodePoint(a[1]) < CodePoint(b[1])
    ELSE str_less(Tail(a), Tail(b))

RECURSIVE insert_sorted(_, _)
insert_sorted(x, seq) ==
    IF seq = <<>> THEN <<x>>
    ELSE IF str_less(x, seq[1]) THEN <<x>> \o seq
    ELSE <<seq[1]>> \o insert_sorted(x, Tail(seq))

RECURSIVE sorted(_)
sorted(seq) ==
    IF seq = <<>> THEN <<>>
    ELSE insert_sorted(seq[Len(seq)], sorted(SubSeq(seq, 1, Len(seq) - 1)))

\* Python's None, and its rendering by an f-string.
None == <<"<None>">>

fstr(v) == IF v = None THEN <<"N", "o", "n", "e">> ELSE v

(***************************************************************************)
(* config.py: the category registry and the CSV settings.                  *)
(***************************************************************************)
PREFIXES ==
    (<<"Chop">> :> <<"CHOP">>) @@ (<<"ChopNet">> :> <<"CHOPNET">>) @@
    (<<"Cop2">> :> <<"COP2">>) @@ (<<"CopNet">> :> <<"IMG">>) @@
    (<<"Director">> :> None) @@ (<<"Dop">> :> <<"DOP">>) @@
    (<<"Driver">> :> <<"ROP">>) @@ (<<"Lop">> :> <<"LOP">>) @@
    (<<"Manager">> :> None) @@ (<<"Object">> :> <<"OBJ">>) @@
    (<<"Shop">> :> <<"SHOP">>) @@ (<<"Sop">> :> <<"SOP">>) @@
    (<<"Top">> :> <<"TOP">>) @@ (<<"TopNet">> :> <<"TOPNET">>) @@
    (<<"Vop">> :> <<"VOP">>) @@ (<<"VopNet">> :> None)

CATEGORIES == DOMAIN PREFIXES

LANGUAGES == {<<"HScript">>, <<"Python">>, <<"VEX">>}

PREFIX_VALUES == {PREFIXES[c] : c \in CATEGORIES}

delimiter == ";"

quotechar == "\""

(***************************************************************************)
(* The csv module as config.py sets it up: unix dialect, delimiter ";",    *)
(* minimal quoting, doubled quote characters.                              *)
(***************************************************************************)
needs_quotes(field) ==
    \E i \in 1..Len(field) : field[i] \in {delimiter, quotechar, "\n"}

RECURSIVE double_quotes(_)
double_quotes(field) ==
    IF field = <<>> THEN <<>>
    ELSE IF field[1] = quotechar
         THEN <<quotechar, quotechar>> \o double_quotes(Tail(field))
    ELSE <<field[1]>> \o double_quotes(Tail(field))

\* A writer that never quotes a field.
csv_field_raw(field) == field

csv_field(field) ==
    IF needs_quotes(field)
    THEN <<quotechar>> \o double_quotes(field) \o <<quotechar>>
    ELSE field

\* csv.writer(...).writerow(row): one line, without its line terminator.
writerow(row) == join([i \in 1..Len(row) |-> csv_field(row[i])], delimiter)

\* csv.reader on one line: the parser's automaton.  st is the parser state,
\* cur the field being read, done the fields read so far.
RECURSIVE parse_line(_, _, _, _)
parse_line(line, st, cur, done) ==
    IF line = <<>>
    THEN IF st = "START_RECORD" THEN done ELSE Append(done, cur)
    ELSE LET c == line[1]
             rest == Tail(line)
         IN CASE st \in {"START_RECORD", "START_FIELD"} ->
                   IF c = quotechar
                   THEN parse_line(rest, "IN_QUOTED_FIELD", <<>>, done)
                   ELSE IF c = delimiter
                   THEN parse_line(rest, "START_FIELD", <<>>, Append(done, <<>>))
                   ELSE parse_line(rest, "IN_FIELD", <<c>>, done)
              [] st = "IN_FIELD" ->
                   IF c = delimiter
                   THEN parse_line(rest, "START_FIELD", <<>>, Append(done, cur))
                   ELSE parse_line(rest, "IN_FIELD", Append(cur, c), done)
              [] st = "IN_QUOTED_FIELD" ->
                   IF c = quotechar
                   THEN parse_line(rest, "QUOTE_IN_QUOTED_FIELD", cur, done)
                   ELSE parse_line(rest, "IN_QUOTED_FIELD", Append(cur, c), done)
              [] st = "QUOTE_IN_QUOTED_FIELD" ->
                   IF c = quotechar
                   THEN parse_line(rest, "IN_QUOTED_FIELD", Append(cur, c), done)
                   ELSE IF c = delimiter
                   THEN parse_line(rest, "START_FIELD", <<>>, Append(done, cur))
                   ELSE parse_line(rest, "IN_FIELD", Append(cur, c), done)

\* The row csv.reader yields for one line of the file.
readrow(line) == parse_line(line, "START_RECORD", <<>>, <<>>)

(***************************************************************************)
(* messages.py: the texts sent to the notification sink.                   *)
(***************************************************************************)
CAT_EMPTY == "No snippets in selected category."
CAT_INVALID == "Unsupported category: "
CMD_INVALID == "Invalid command."

CSV_EMPTY == "Category already empty:"
CSV_MISSING == "Missing CSV file:"
DESC_REQ == "Snippet description is mandatory."
FILE_MISSING == "File not found:"
SEL_EMPTY == "Empty selection."
SEL_TIP == "Select at least one network item."
SNIPPET_ADDED == "Snippet added to repository."
SNIPPET_DELETED == "Snippet removed from repository:"
SNIPPET_FETCHED == "snippet fetched and is ready for pasting."
SOURCE_MISSING == "Source path not found. Nothing was exported."

(***************************************************************************)
(* Files.  A directory is a set of files [name, data]; an index file is    *)
(* [exists, lines], its lines in file order.                               *)
(***************************************************************************)
ALL_CATEGORIES == CATEGORIES \cup LANGUAGES

NoFile == [exists |-> FALSE, lines |-> <<>>]

EmptyFile == [exists |-> TRUE, lines |-> <<>>]

path_exists(dir, name) == \E f \in dir : f.name = name

read_file(dir, name) == (CHOOSE f \in dir : f.name = name).data

\* open(path, 'w') ... write: the file is created or replaced.
write_file(dir, name, data) ==
    {f \in dir : f.name # name} \cup {[name |-> name, data |-> data]}

\* An unlink that empties the directory.
unlink_all(dir, name) == {}

\* An unlink that leaves the file where it is.
unlink_kept(dir, name) == dir

unlink(dir, name) == {f \in dir : f.name # name}

\* gzip: a stream is its magic header followed by the deflated blocks of the
\* input, block by block.
GZIP_MAGIC == "\\x1f\\x8b"

deflate(block) ==
    CASE block = "p" -> "deflated(p)"
      [] block = "q" -> "deflated(q)"
      [] OTHER -> "deflated(?)"

inflate(block) ==
    CASE block = "deflated(p)" -> "p"
      [] block = "deflated(q)" -> "q"
      [] OTHER -> "?"

\* gzip.open(target, 'wb').writelines(source)
gzip_compress(data) ==
    <<GZIP_MAGIC>> \o [i \in 1..Len(data) |-> deflate(data[i])]

\* shutil.copyfileobj(gzip.open(source, 'rb'), target)
\* A decompression that hands the stream on as it is.
gzip_decompress_raw(data) == data

gzip_decompress(data) == [i \in 1..(Len(data) - 1) |-> inflate(data[i + 1])]

\* A bootstrap that opens every index file for writing.
validate_hierarchy_truncating(idx) == [c \in ALL_CATEGORIES |-> EmptyFile]

\* Config.__validate_hierarchy: every missing index file is created empty.
\* Config() runs it on every call: __new__ returns the singleton and Python
\* then calls __init__ again.
validate_hierarchy(idx) ==
    [c \in ALL_CATEGORIES |-> IF idx[c].exists THEN idx[c] ELSE EmptyFile]

(***************************************************************************)
(* snippets.py: the Snippet classes.                                       *)
(***************************************************************************)
\* A description setter that takes every value.
description_setter_any(description) == ""

\* Snippet.description setter
description_setter(description) ==
    IF description = <<>> THEN "DescriptionRequired" ELSE ""

\* The tags setter without sorted().
tags_setter_unsorted(tags) ==
    LET parts == split(tags, ",")
    IN [i \in 1..Len(parts) |-> strip(parts[i])]

\* Snippet.tags setter: sorted([tag.strip() for tag in tags.split(',')])
tags_setter(tags) ==
    LET parts == split(tags, ",")
    IN sorted([i \in 1..Len(parts) |-> strip(parts[i])])

\* OpSnippet.category setter
OpSnippet_category_setter(category) ==
    IF category = <<>> \/ category \notin CATEGORIES
    THEN "InvalidCategory" ELSE ""

\* CodeSnippet.category setter
CodeSnippet_category_setter(category) ==
    IF category = <<>> \/ category \notin LANGUAGES
    THEN "InvalidCategory" ELSE ""

\* A prefix setter that takes every value.
prefix_setter_any(prefix) == ""

\* Snippet.prefix setter: the error, and the value stored.
prefix_setter(prefix) ==
    IF prefix \notin PREFIX_VALUES /\ prefix # None THEN "PrefixInvalid" ELSE ""

\* A prefix setter that stores the text of None.
prefix_value_text(prefix) == fstr(prefix)

prefix_value(prefix) == IF prefix = None THEN <<>> ELSE prefix

\* Snippet.__init__ (through OpSnippet or CodeSnippet): the setters in the
\* order of the assignments; err is the first error raised, "" when the
\* object is built.  Registration in the instances is the caller's last step.
Snippet_init(cls, kwargs) ==
    LET prefix == IF cls = "CodeSnippet" THEN None ELSE kwargs.prefix
        e1 == description_setter(kwargs.description)
        e3 == IF cls = "OpSnippet"
              THEN OpSnippet_category_setter(kwargs.category)
              ELSE CodeSnippet_category_setter(kwargs.category)
        e4 == prefix_setter(prefix)
    IN [err |-> IF e1 # "" THEN e1 ELSE IF e3 # "" THEN e3 ELSE e4,
        snippet |-> [cls |-> cls,
                     description |-> kwargs.description,
                     tags |-> tags_setter(kwargs.tags),
                     category |-> kwargs.category,
                     prefix |-> prefix_value(prefix),
                     uuid |-> kwargs.uuid]]

\* Snippet.__str__
Snippet_str(s) ==
    ljust(slice(s.description, max_desc_len), max_desc_len + 2)
        \o <<"|">> \o join(s.tags, ",")

\* [str(instance) for instance in Snippet.instances()]
instances_as_str(insts) == [i \in 1..Len(insts) |-> Snippet_str(insts[i])]

\* A lookup that goes on to the last instance with the description.
get_by_description_last(insts, description) ==
    IF \A i \in 1..Len(insts) : insts[i].description # description THEN 0
    ELSE CHOOSE i \in 1..Len(insts) :
             /\ insts[i].description = description
             /\ \A j \in (i + 1)..Len(insts) : insts[j].description # description

\* Snippet.get_by_description: the position of the first instance with the
\* description, 0 for None.
get_by_description(insts, description) ==
    IF \A i \in 1..Len(insts) : insts[i].description # description THEN 0
    ELSE CHOOSE i \in 1..Len(insts) :
             /\ insts[i].description = description
             /\ \A j \in 1..(i - 1) : insts[j].description # description

\* The row Snippet.add_to_list writes.
snippet_row(s) ==
    <<s.description, join(s.tags, ","), s.category, s.prefix, s.uuid>>

\* add_to_list without its writerow: the index stays as it was.
add_to_list_skipped(idx, s) == idx

\* Snippet.add_to_list: open(list_file, 'a') and one writerow.
add_to_list(idx, s) ==
    [idx EXCEPT ![s.category] =
        [exists |-> TRUE, lines |-> Append(@.lines, writerow(snippet_row(s)))]]

\* The loop of get_snippet over the rows: the class follows the row's own
\* category.  Stops at the first error, the instances built so far kept.
RECURSIVE get_snippet_load(_, _)
get_snippet_load(lines, insts) ==
    IF lines = <<>> THEN [err |-> "", instances |-> insts]
    ELSE LET item == readrow(lines[1])
         IN IF Len(item) < 5 THEN [err |-> "IndexError", instances |-> insts]
            ELSE LET r == Snippet_init(
                              IF item[3] \in CATEGORIES
                              THEN "OpSnippet" ELSE "CodeSnippet",
                              [description |-> item[1], tags |-> item[2],
                               category |-> item[3], prefix |-> item[4],
                               uuid |-> item[5]])
                 IN IF r.err # "" THEN [err |-> r.err, instances |-> insts]
                    ELSE get_snippet_load(Tail(lines), Append(insts, r.snippet))

\* The loop of del_snippet over the rows: the class follows the category
\* chosen at the prompt.
RECURSIVE del_snippet_load(_, _, _)
del_snippet_load(lines, category, insts) ==
    IF lines = <<>> THEN [err |-> "", instances |-> insts]
    ELSE LET item == readrow(lines[1])
         IN IF Len(item) < 5 THEN [err |-> "IndexError", instances |-> insts]
            ELSE LET r == Snippet_init(
                              IF category \in CATEGORIES
                              THEN "OpSnippet" ELSE "CodeSnippet",
                              [description |-> item[1], tags |-> item[2],
                               category |-> item[3], prefix |-> item[4],
                               uuid |-> item[5]])
                 IN IF r.err # "" THEN [err |-> r.err, instances |-> insts]
                    ELSE del_snippet_load(Tail(lines), category,
                                          Append(insts, r.snippet))

\* The loop of Snippet.delete comparing the fourth field, not the fifth.
RECURSIVE rewrite_excluding_by_prefix(_, _, _)
rewrite_excluding_by_prefix(lines, uuid, out) ==
    IF lines = <<>> THEN [err |-> "", lines |-> out]
    ELSE LET row == readrow(lines[1])
         IN IF Len(row) < 5 THEN [err |-> "IndexError", lines |-> out]
            ELSE IF row[4] # uuid
            THEN rewrite_excluding_by_prefix(Tail(lines), uuid,
                     Append(out, writerow(<<row[1], row[2], row[3], row[4], row[5]>>)))
            ELSE rewrite_excluding_by_prefix(Tail(lines), uuid, out)

\* The loop of Snippet.delete over the rows: the lines written to the
\* temporary file; err when a row has no fifth field.
RECURSIVE rewrite_excluding(_, _, _)
rewrite_excluding(lines, uuid, out) ==
    IF lines = <<>> THEN [err |-> "", lines |-> out]
    ELSE LET row == readrow(lines[1])
         IN IF Len(row) < 5 THEN [err |-> "IndexError", lines |-> out]
            ELSE IF row[5] # uuid
            THEN rewrite_excluding(Tail(lines), uuid,
                     Append(out, writerow(<<row[1], row[2], row[3], row[4], row[5]>>)))
            ELSE rewrite_excluding(Tail(lines), uuid, out)

\* A generator that hands out one token again and again.
uuid_hex_fixed(n) == <<"1">>

\* uuid1().hex of the n-th token.
uuid_hex(n) == <<ToString(n)>>

\* The path of the host's exchange file: {prefix}_copy.cpio
copy_cpio(prefix) == prefix \o <<"_copy.cpio">>

(***************************************************************************)
(* The content store: store_in_repo and get_from_repo of both classes.     *)
(* Each yields err ("" when it returns) and the files it leaves.           *)
(***************************************************************************)
\* OpSnippet.store_in_repo: the host's exchange file, compressed, becomes
\* {repo}/{category}/{uuid}.
OpSnippet_store_in_repo(dirs, temp, s) ==
    IF ~path_exists(temp, copy_cpio(s.prefix))
    THEN [err |-> "SourceMissing", content |-> dirs]
    ELSE [err |-> "",
          content |-> [dirs EXCEPT ![s.category] =
              write_file(@, s.uuid,
                         gzip_compress(read_file(temp, copy_cpio(s.prefix))))]]

\* OpSnippet.get_from_repo: the content file, decompressed, becomes the
\* host's exchange file.
OpSnippet_get_from_repo(dirs, temp, s) ==
    IF ~path_exists(dirs[s.category], s.uuid)
    THEN [err |-> "SourceMissing", host_temp |-> temp]
    ELSE [err |-> "",
          host_temp |-> write_file(temp, copy_cpio(s.prefix),
              gzip_decompress(read_file(dirs[s.category], s.uuid)))]

\* CodeSnippet.store_in_repo: the code, as it is, becomes the content file.
CodeSnippet_store_in_repo(dirs, s, code) ==
    [dirs EXCEPT ![s.category] = write_file(@, s.uuid, code)]

\* A fetch that passes over a missing content file without a word.
CodeSnippet_get_from_repo_quiet(dirs, clip, s) ==
    IF ~path_exists(dirs[s.category], s.uuid)
    THEN [err |-> "", clipboard |-> clip]
    ELSE [err |-> "", clipboard |-> read_file(dirs[s.category], s.uuid)]

\* CodeSnippet.get_from_repo with Clipboard.fetch: the content file goes to
\* the clipboard.
CodeSnippet_get_from_repo(dirs, clip, s) ==
    IF ~path_exists(dirs[s.category], s.uuid)
    THEN [err |-> "ContentMissing", clipboard |-> clip]
    ELSE [err |-> "", clipboard |-> read_file(dirs[s.category], s.uuid)]

\* Clipboard.get: xsel's output read in text mode, where Python turns
\* "\r\n" and a lone "\r" into "\n".
RECURSIVE Clipboard_get(_)
Clipboard_get(clip) ==
    IF clip = <<>> THEN <<>>
    ELSE IF Len(clip) >= 2 /\ clip[1] = "\r" /\ clip[2] = "\n"
    THEN <<"\n">> \o Clipboard_get(SubSeq(clip, 3, Len(clip)))
    ELSE IF clip[1] = "\r" THEN <<"\n">> \o Clipboard_get(Tail(clip))
    ELSE <<clip[1]>> \o Clipboard_get(Tail(clip))

\* Broadcast.all and Broadcast.stdout: one more message on the sink.
Broadcast_all(log, msg, severity) ==
    Append(log, [msg |-> msg, severity |-> severity, channel |-> "all"])

Broadcast_stdout(log, msg, severity) ==
    Append(log, [msg |-> msg, severity |-> severity, channel |-> "stdout"])

\* selected_snippet.partition('|')[0].rstrip()
picked_description(selected) == rstrip(partition_head(selected, "|"))

(***************************************************************************)
(* What the collaborators hand to the workflows.                           *)
(***************************************************************************)
\* Menu.enter: a typed line, right-stripped by the menu class.
EnterInputs == {<<>>, <<"a">>, <<"a", " ">>, <<"a", "|", "b">>}

TagInputs == {<<"b", ",", " ", "a">>}

\* Menu.select at a category prompt: the line picked, "" on cancel.
CategoryInputs == {<<>>, <<"Sop", "\n">>, <<"Python", "\n">>}

\* Menu.select at the language prompt: a line picked or typed, "" on cancel.
LanguageInputs == {<<>>, <<"Python", "\n">>, <<"Foo", "\n">>}

\* hou.selectedItems(): nothing, items without a node, or nodes of a category.
Selections ==
    {[items |-> "none", category |-> <<>>],
     [items |-> "no_node", category |-> <<>>],
     [items |-> "node", category |-> <<"Sop">>],
     [items |-> "node", category |-> <<"Director">>],
     [items |-> "node", category |-> <<"Fx">>]}

\* Menu.select at the command prompt of main: "" on cancel, a line that is no
\* command.  The commands themselves are the workflows below.
CommandInputs == {<<>>, <<"bogus", "\n">>}

\* What a selection serialises to, and what the user copies.
Payloads == {<<"p">>, <<"q">>}

\* What the user copies to the clipboard.
Texts == {<<"p">>, <<"q", "\r", "\n">>}

(***************************************************************************)
(* State.                                                                  *)
(***************************************************************************)
VARIABLES
    index,          \* {repo}/{category}.csv of every category
    content,        \* {repo}/{category}/ of every category
    host_temp,      \* the host's temporary directory
    clipboard,      \* the X11 clipboard
    instances,      \* Snippet.__instances
    uuid_counter,   \* uuid1() tokens that snippets hold (a token dropped
                    \* with an object that was never built is not counted)
    temp_file,      \* /dev/shm/houclip_{uuid}.csv of the running delete
    env_count,      \* out-of-band changes made so far
    sink_ok,        \* whether notify-send exits with status 0
    pc,             \* where the running workflow stands
    frame,          \* its local variables
    sent,           \* messages it sent to the notification sink
    outcome,        \* how it ended: "returned" or the error raised
    pre,            \* the files and the catalog as it started
    stored          \* uuid and payload of every snippet stored by a Create

vars == <<index, content, host_temp, clipboard, instances, uuid_counter,
          temp_file, env_count, sink_ok, pc, frame, sent, outcome, pre, stored>>

NoSnippet ==
    [cls |-> "", description |-> <<>>, tags |-> <<>>, category |-> <<>>,
     prefix |-> <<>>, uuid |-> <<>>]

NoFrame ==
    [workflow |-> "", category |-> <<>>, description |-> <<>>,
     tags |-> <<>>, prefix |-> <<>>, lines |-> <<>>, choice |-> 0,
     picked |-> NoSnippet, self |-> NoSnippet, pos |-> 0, before |-> <<>>,
     copied |-> 0, stage |-> "", produced |-> FALSE, others |-> {}]

NoPre ==
    [index |-> [c \in ALL_CATEGORIES |-> EmptyFile],
     content |-> [c \in ALL_CATEGORIES |-> {}],
     host_temp |-> {}, clipboard |-> <<>>, instances |-> <<>>]

Snapshot ==
    [index |-> index, content |-> content, host_temp |-> host_temp,
     clipboard |-> clipboard, instances |-> instances]

\* A bootstrapped, empty repository and a fresh process.
Init ==
    /\ index = [c \in ALL_CATEGORIES |-> EmptyFile]
    /\ content = [c \in ALL_CATEGORIES |-> {}]
    /\ host_temp = {}
    /\ clipboard = <<>>
    /\ instances = <<>>
    /\ uuid_counter = 0
    /\ temp_file = NoFile
    /\ env_count = 0
    /\ sink_ok = TRUE
    /\ pc = "idle"
    /\ frame = NoFrame
    /\ sent = <<>>
    /\ outcome = ""
    /\ pre = NoPre
    /\ stored = {}

(***************************************************************************)
(* The workflows.  A workflow that has ended stands at "done" with its     *)
(* outcome and messages until the caller takes them (Return).              *)
(***************************************************************************)
\* The state a workflow leaves when it ends.
End(idx, dirs, temp, clip, insts, n, log, out, st) ==
    [index |-> idx, content |-> dirs, host_temp |-> temp, clipboard |-> clip,
     instances |-> insts, uuid_counter |-> n, sent |-> log, outcome |-> out,
     stored |-> st]

Finish(r) ==
    /\ index' = r.index
    /\ content' = r.content
    /\ host_temp' = r.host_temp
    /\ clipboard' = r.clipboard
    /\ instances' = r.instances
    /\ uuid_counter' = r.uuid_counter
    /\ sent' = r.sent
    /\ outcome' = IF /\ ~sink_ok
                     /\ Len(r.sent) > Len(sent)
                     /\ r.sent[Len(r.sent)].channel = "all"
                  THEN "CalledProcessError" ELSE r.outcome
    /\ stored' = r.stored
    /\ pc' = "done"

\* add_op_snippet, from the selection to the notification.  sel is the
\* host's selection, produced whether copyItemsToClipboard left its file,
\* payload what it serialised, typed_* the lines typed at the two prompts.
add_op_snippet(sel, produced, payload, typed_description, typed_tags) ==
    /\ pc = "idle"
    /\ uuid_counter < MaxUuid
    /\ pre' = Snapshot
    /\ frame' = [NoFrame EXCEPT !.workflow = "add_op_snippet",
                                !.category = sel.category,
                                !.prefix =
                                    IF sel.items = "node"
                                       /\ sel.category \in CATEGORIES
                                    THEN fstr(PREFIXES[sel.category])
                                    ELSE <<>>,
                                !.description = rstrip(typed_description),
                                !.tags = rstrip(typed_tags),
                                !.produced =
                                    /\ produced
                                    /\ sel.items = "node"
                                    /\ sel.category \in CATEGORIES
                                    /\ PREFIXES[sel.category] # None]
    /\ temp_file' = temp_file
    /\ env_count' = env_count
    /\ sink_ok' = sink_ok
    /\ LET idx == validate_hierarchy(index)
           category == sel.category
           registry == IF category \in CATEGORIES THEN PREFIXES[category] ELSE None
           temp == IF produced /\ registry # None
                   THEN write_file(host_temp, copy_cpio(registry), payload)
                   ELSE host_temp
           description == rstrip(typed_description)
           tags == rstrip(typed_tags)
           n == uuid_counter + 1
           made == Snippet_init("OpSnippet",
                       [description |-> description, tags |-> tags,
                        category |-> category, prefix |-> fstr(registry),
                        uuid |-> uuid_hex(n)])
           s == made.snippet
           insts == Append(instances, s)
           put == OpSnippet_store_in_repo(content, temp, s)
       IN Finish(
           IF sel.items = "none"
           THEN End(idx, content, host_temp, clipboard, instances, uuid_counter,
                    Broadcast_all(sent, SEL_EMPTY, 2), "returned", stored)
           ELSE IF sel.items = "no_node"
           THEN End(idx, content, host_temp, clipboard, instances, uuid_counter,
                    Broadcast_all(sent, SEL_TIP, 2), "returned", stored)
           ELSE IF category \notin CATEGORIES
           THEN End(idx, content, host_temp, clipboard, instances, uuid_counter,
                    Broadcast_all(sent, CAT_INVALID, 4),
                    "TypeCategoryNotFoundError", stored)
           ELSE IF description = <<>>
           THEN End(idx, content, temp, clipboard, instances, uuid_counter,
                    Broadcast_all(sent, DESC_REQ, 2), "returned", stored)
           ELSE IF made.err # ""
           THEN End(idx, content, temp, clipboard, instances, uuid_counter,
                    sent, made.err, stored)
           ELSE IF put.err # ""
           THEN End(idx, content, temp, clipboard, insts, n,
                    Broadcast_all(sent, SOURCE_MISSING, 3), put.err, stored)
           ELSE End(add_to_list(idx, s), put.content, temp, clipboard, insts, n,
                    Broadcast_all(sent, SNIPPET_ADDED, 0), "returned",
                    stored \cup {[uuid |-> s.uuid,
                                  payload |-> read_file(temp, copy_cpio(s.prefix))]}))

\* add_code_snippet, from the language prompt to the notification.
add_code_snippet(selected, typed_description, typed_tags) ==
    /\ pc = "idle"
    /\ uuid_counter < MaxUuid
    /\ pre' = Snapshot
    /\ frame' = [NoFrame EXCEPT !.workflow = "add_code_snippet",
                                !.category = rstrip(selected),
                                !.description = rstrip(typed_description),
                                !.tags = rstrip(typed_tags)]
    /\ temp_file' = temp_file
    /\ env_count' = env_count
    /\ sink_ok' = sink_ok
    /\ LET idx == validate_hierarchy(index)
           language == rstrip(selected)
           description == rstrip(typed_description)
           tags == rstrip(typed_tags)
           n == uuid_counter + 1
           code == Clipboard_get(clipboard)
           made == Snippet_init("CodeSnippet",
                       [description |-> description, tags |-> tags,
                        category |-> language, prefix |-> None,
                        uuid |-> uuid_hex(n)])
           s == made.snippet
           insts == Append(instances, s)
       IN Finish(
           IF language \notin LANGUAGES
           THEN End(idx, content, host_temp, clipboard, instances, uuid_counter,
                    Broadcast_all(sent, CAT_INVALID, 2), "returned", stored)
           ELSE IF description = <<>>
           THEN End(idx, content, host_temp, clipboard, instances, uuid_counter,
                    sent, "returned", stored)
           ELSE IF made.err # ""
           THEN End(idx, content, host_temp, clipboard, instances,
                    uuid_counter, sent, made.err, stored)
           ELSE End(add_to_list(idx, s), CodeSnippet_store_in_repo(content, s, code),
                    host_temp, clipboard, insts, n,
                    Broadcast_all(sent, SNIPPET_ADDED, 0), "returned",
                    stored \cup {[uuid |-> s.uuid, payload |-> code]}))

\* get_snippet and del_snippet up to their category prompt: Config() only.
begin(workflow) ==
    /\ pc = "idle"
    /\ pre' = Snapshot
    /\ index' = validate_hierarchy(index)
    /\ frame' = [NoFrame EXCEPT !.workflow = workflow]
    /\ pc' = "category"
    /\ UNCHANGED <<content, host_temp, clipboard, instances, uuid_counter,
                   temp_file, env_count, sink_ok, sent, outcome, stored>>

get_snippet_begin == begin("get_snippet")

del_snippet_begin == begin("del_snippet")

\* A purge that leaves the instances of the workflow before.
purge_skipped == instances

\* Snippet.purge: the instances after it.
purge == <<>>

\* The workflow goes on to its snippet prompt with the catalog rendered.
Prompt(category, insts) ==
    /\ instances' = insts
    /\ frame' = [frame EXCEPT !.category = category,
                              !.lines = instances_as_str(insts)]
    /\ pc' = "pick"
    /\ UNCHANGED <<index, content, host_temp, clipboard, uuid_counter, sent,
                   outcome, stored>>

\* get_snippet from the category picked to the snippet prompt.
get_snippet_category(selected) ==
    /\ pc = "category"
    /\ frame.workflow = "get_snippet"
    /\ UNCHANGED <<temp_file, env_count, sink_ok, pre>>
    /\ LET category == rstrip(selected)
           here == category \in ALL_CATEGORIES /\ index[category].exists
           loaded == get_snippet_load(index[category].lines, purge)
           stop(insts, log, out) ==
               /\ frame' = [frame EXCEPT !.category = category]
               /\ Finish(End(index, content, host_temp, clipboard, insts,
                             uuid_counter, log, out, stored))
       IN IF category = <<>> \/ ~here
          THEN stop(instances, sent, "returned")
          ELSE IF loaded.err # ""
          THEN stop(loaded.instances, sent, loaded.err)
          ELSE IF loaded.instances = <<>>
          THEN stop(loaded.instances, Broadcast_all(sent, CAT_EMPTY, 0),
                    "returned")
          ELSE Prompt(category, loaded.instances)

\* get_snippet from the snippet picked (choice 0: the prompt was cancelled).
get_snippet_pick(choice) ==
    /\ pc = "pick"
    /\ frame.workflow = "get_snippet"
    /\ choice \in 0..Len(frame.lines)
    /\ UNCHANGED <<temp_file, env_count, sink_ok, pre>>
    /\ LET selected == IF choice = 0 THEN <<>>
                       ELSE frame.lines[choice] \o <<"\n">>
           chosen == IF choice = 0 THEN NoSnippet ELSE instances[choice]
           k == get_by_description(instances, picked_description(selected))
           s == IF k = 0 THEN NoSnippet ELSE instances[k]
           op == OpSnippet_get_from_repo(content, host_temp, s)
           code == CodeSnippet_get_from_repo(content, clipboard, s)
           stop(temp, clip, log, out) ==
               /\ frame' = [frame EXCEPT !.choice = choice,
                                         !.picked = chosen, !.self = s,
                                         !.pos = k]
               /\ Finish(End(index, content, temp, clip, instances,
                             uuid_counter, log, out, stored))
       IN IF selected = <<>>
          THEN stop(host_temp, clipboard, sent, "returned")
          ELSE IF k = 0
          THEN stop(host_temp, clipboard, sent, "AttributeError")
          ELSE IF s.cls = "OpSnippet"
          THEN IF op.err # ""
               THEN stop(host_temp, clipboard,
                         Broadcast_all(sent, SOURCE_MISSING, 3), op.err)
               ELSE stop(op.host_temp, clipboard,
                         Broadcast_all(sent, SNIPPET_FETCHED, 0), "returned")
          ELSE IF code.err # ""
               THEN stop(host_temp, clipboard,
                         Broadcast_stdout(sent, FILE_MISSING, 3), code.err)
               ELSE stop(host_temp, code.clipboard,
                         Broadcast_all(sent, SNIPPET_FETCHED, 0), "returned")

\* del_snippet from the category picked to the snippet prompt.
del_snippet_category(selected) ==
    /\ pc = "category"
    /\ frame.workflow = "del_snippet"
    /\ UNCHANGED <<temp_file, env_count, sink_ok, pre>>
    /\ LET category == strip(selected)
           loaded == del_snippet_load(index[category].lines, category, purge)
           stop(insts, log, out) ==
               /\ frame' = [frame EXCEPT !.category = category]
               /\ Finish(End(index, content, host_temp, clipboard, insts,
                             uuid_counter, log, out, stored))
       IN IF category = <<>> \/ category \notin ALL_CATEGORIES
          THEN stop(instances, sent, "returned")
          ELSE IF ~index[category].exists
          THEN stop(purge, Broadcast_all(sent, CSV_MISSING, 4), "returned")
          ELSE IF loaded.err # ""
          THEN stop(loaded.instances, sent, loaded.err)
          ELSE IF loaded.instances = <<>>
          THEN stop(loaded.instances, Broadcast_all(sent, CAT_EMPTY, 0),
                    "returned")
          ELSE Prompt(category, loaded.instances)

\* del_snippet from the snippet picked into Snippet.delete, up to the
\* temporary file written: Config(), the size check, the filtered rows.
del_snippet_pick(choice) ==
    /\ pc = "pick"
    /\ frame.workflow = "del_snippet"
    /\ choice \in 0..Len(frame.lines)
    /\ UNCHANGED <<env_count, sink_ok, pre>>
    /\ LET selected == IF choice = 0 THEN <<>>
                       ELSE frame.lines[choice] \o <<"\n">>
           chosen == IF choice = 0 THEN NoSnippet ELSE instances[choice]
           k == get_by_description(instances, picked_description(selected))
           s == IF k = 0 THEN NoSnippet ELSE instances[k]
           idx == validate_hierarchy(index)
           list_file == idx[s.category]
           log == IF list_file.lines = <<>>
                  THEN Broadcast_all(sent, CSV_EMPTY, 4) ELSE sent
           kept == rewrite_excluding(list_file.lines, s.uuid, <<>>)
           stop(i, t, l, out) ==
               /\ temp_file' = t
               /\ frame' = [frame EXCEPT !.choice = choice,
                                         !.picked = chosen, !.self = s,
                                         !.pos = k]
               /\ Finish(End(i, content, host_temp, clipboard, instances,
                             uuid_counter, l, out, stored))
       IN IF selected = <<>>
          THEN stop(index, temp_file, sent, "returned")
          ELSE IF k = 0
          THEN stop(index, temp_file, sent, "AttributeError")
          ELSE IF list_file.lines = <<>> /\ ~sink_ok
          THEN stop(idx, temp_file, log, "CalledProcessError")
          ELSE IF kept.err # ""
          THEN stop(idx, [exists |-> TRUE, lines |-> kept.lines], log,
                    kept.err)
          ELSE /\ index' = idx
               /\ temp_file' = [exists |-> TRUE, lines |-> kept.lines]
               /\ frame' = [frame EXCEPT !.choice = choice,
                                         !.picked = chosen, !.self = s,
                                         !.pos = k,
                                         !.before = list_file.lines]
               /\ sent' = log
               /\ pc' = "copyfile"
               /\ UNCHANGED <<content, host_temp, clipboard, instances,
                              uuid_counter, outcome, stored>>

\* A copy that opens its target for appending, which keeps what it holds.
copyfile_open_append ==
    /\ pc = "copyfile"
    /\ frame' = [frame EXCEPT !.copied = 0]
    /\ pc' = "copying"
    /\ UNCHANGED <<index, content, host_temp, clipboard, instances,
                   uuid_counter, temp_file, env_count, sink_ok, sent, outcome,
                   pre, stored>>

\* shutil.copyfile(temp_file, list_file_path), first half: the target is
\* opened for writing, which empties it.
copyfile_open ==
    /\ pc = "copyfile"
    /\ index' = [index EXCEPT ![frame.self.category] = EmptyFile]
    /\ frame' = [frame EXCEPT !.copied = 0]
    /\ pc' = "copying"
    /\ UNCHANGED <<content, host_temp, clipboard, instances, uuid_counter,
                   temp_file, env_count, sink_ok, sent, outcome, pre, stored>>

\* shutil.copyfile, second half: the next piece of the source is written.
copyfile_write ==
    /\ pc = "copying"
    /\ frame.copied < Len(temp_file.lines)
    /\ index' = [index EXCEPT ![frame.self.category].lines =
                     Append(@, temp_file.lines[frame.copied + 1])]
    /\ frame' = [frame EXCEPT !.copied = @ + 1]
    /\ UNCHANGED <<content, host_temp, clipboard, instances, uuid_counter,
                   temp_file, env_count, sink_ok, pc, sent, outcome, pre, stored>>

\* Snippet.delete without instances.remove(self).
remove_at_none(insts, k) == insts

\* instances.remove(self)
remove_at(insts, k) ==
    [i \in 1..(Len(insts) - 1) |-> IF i < k THEN insts[i] ELSE insts[i + 1]]

\* Snippet.delete after the copy: the content file and the temporary file
\* are unlinked; FileNotFoundError when the content file is not there.
Snippet_delete_unlink ==
    /\ pc = "copying"
    /\ frame.copied = Len(temp_file.lines)
    /\ UNCHANGED <<env_count, sink_ok, pre, frame>>
    /\ LET s == frame.self
       IN IF ~path_exists(content[s.category], s.uuid)
          THEN /\ temp_file' = temp_file
               /\ Finish(End(index, content, host_temp, clipboard, instances,
                             uuid_counter, sent, "FileNotFoundError", stored))
          ELSE /\ temp_file' = NoFile
               /\ content' = [content EXCEPT ![s.category] = unlink(@, s.uuid)]
               /\ stored' = {e \in stored : e.uuid # s.uuid}
               /\ pc' = "remove"
               /\ UNCHANGED <<index, host_temp, clipboard, instances,
                              uuid_counter, sent, outcome>>

\* The end of Snippet.delete: the object leaves the instances.
Snippet_delete_remove ==
    /\ pc = "remove"
    /\ instances' = remove_at(instances, frame.pos)
    /\ pc' = "notify"
    /\ UNCHANGED <<index, content, host_temp, clipboard, uuid_counter,
                   temp_file, env_count, sink_ok, frame, sent, outcome, pre, stored>>

\* The end of del_snippet: the deletion is notified.
del_snippet_notify ==
    /\ pc = "notify"
    /\ UNCHANGED <<temp_file, env_count, sink_ok, pre, frame>>
    /\ Finish(End(index, content, host_temp, clipboard, instances,
                  uuid_counter, Broadcast_all(sent, SNIPPET_DELETED, 0),
                  "returned", stored))

\* The caller has the workflow's result; the process is ready for the next.
Return ==
    /\ pc = "done"
    /\ pc' = "idle"
    /\ frame' = NoFrame
    /\ sent' = <<>>
    /\ outcome' = ""
    /\ pre' = NoPre
    /\ temp_file' = NoFile
    /\ UNCHANGED <<index, content, host_temp, clipboard, instances,
                   uuid_counter, env_count, sink_ok, stored>>

\* main with a command prompt that yields no command: Config(), the prompt,
\* the return.
main(selected) ==
    /\ pc = "idle"
    /\ pre' = Snapshot
    /\ frame' = [NoFrame EXCEPT !.workflow = "main"]
    /\ UNCHANGED <<temp_file, env_count, sink_ok>>
    /\ LET cmd == rstrip(selected)
       IN Finish(End(validate_hierarchy(index), content, host_temp, clipboard,
                     instances, uuid_counter,
                     IF cmd = <<>> THEN sent
                     ELSE Broadcast_all(sent, CMD_INVALID, 2),
                     "returned", stored))

\* The user copies a text to the clipboard.
user_copies(text) ==
    /\ pc = "idle"
    /\ clipboard # text
    /\ clipboard' = text
    /\ UNCHANGED <<index, content, host_temp, instances, uuid_counter,
                   temp_file, env_count, sink_ok, pc, frame, sent, outcome, pre, stored>>

Next ==
    \/ \E sel \in Selections, produced \in BOOLEAN, payload \in Payloads,
          d \in EnterInputs, t \in TagInputs :
           add_op_snippet(sel, produced, payload, d, t)
    \/ \E l \in LanguageInputs, d \in EnterInputs, t \in TagInputs :
           add_code_snippet(l, d, t)
    \/ get_snippet_begin
    \/ \E c \in CategoryInputs : get_snippet_category(c)
    \/ \E k \in 0..MaxUuid : get_snippet_pick(k)
    \/ del_snippet_begin
    \/ \E c \in CategoryInputs : del_snippet_category(c)
    \/ \E k \in 0..MaxUuid : del_snippet_pick(k)
    \/ copyfile_open
    \/ copyfile_write
    \/ Snippet_delete_unlink
    \/ Snippet_delete_remove
    \/ del_snippet_notify
    \/ Return
    \/ \E c \in CommandInputs : main(c)
    \/ \E text \in Texts : user_copies(text)

Spec == Init /\ [][Next]_vars

(***************************************************************************)
(* The surroundings: files removed or edited behind the program's back     *)
(* while it is idle or waits at a prompt, and the process killed.          *)
(***************************************************************************)
Waiting == pc \in {"idle", "category", "pick"}

\* Categories whose files the surroundings touch.
Touched == {<<"Sop">>, <<"Python">>}

\* Lines a user writes into an index file by hand: a row without a
\* description, a text row in a structural index, a structural row in a
\* text index, a row of a category that is in neither set.
HandWritten ==
    {[file |-> <<"Sop">>, line |-> <<";", ";", "Sop", ";", "SOP", ";", "x">>],
     [file |-> <<"Sop">>, line |-> <<"a", ";", ";", "Python", ";", ";", "x">>],
     [file |-> <<"Python">>, line |-> <<"a", ";", ";", "Sop", ";", "SOP", ";", "x">>],
     [file |-> <<"Sop">>, line |-> <<"a", ";", ";", "Fx", ";", ";", "x">>]}

env_unlink_index(c) ==
    /\ Waiting
    /\ env_count < MaxEnv
    /\ index[c].exists
    /\ index' = [index EXCEPT ![c] = NoFile]
    /\ env_count' = env_count + 1
    /\ sink_ok' = sink_ok
    /\ UNCHANGED <<content, host_temp, clipboard, instances, uuid_counter,
                   temp_file, pc, frame, sent, outcome, pre, stored>>

env_unlink_content(c, name) ==
    /\ Waiting
    /\ env_count < MaxEnv
    /\ path_exists(content[c], name)
    /\ content' = [content EXCEPT ![c] = unlink(@, name)]
    /\ env_count' = env_count + 1
    /\ sink_ok' = sink_ok
    /\ UNCHANGED <<index, host_temp, clipboard, instances, uuid_counter,
                   temp_file, pc, frame, sent, outcome, pre, stored>>

env_append_line(c, line) ==
    /\ pc = "idle"
    /\ env_count < MaxEnv
    /\ index[c].exists
    /\ index' = [index EXCEPT ![c].lines = Append(@, line)]
    /\ env_count' = env_count + 1
    /\ sink_ok' = sink_ok
    /\ UNCHANGED <<content, host_temp, clipboard, instances, uuid_counter,
                   temp_file, pc, frame, sent, outcome, pre, stored>>

\* The notification daemon goes away or comes back: notify-send then exits
\* with an error or with 0.
env_sink(ok) ==
    /\ pc = "idle"
    /\ sink_ok # ok
    /\ sink_ok' = ok
    /\ UNCHANGED <<index, content, host_temp, clipboard, instances,
                   uuid_counter, temp_file, env_count, pc, frame, sent, outcome,
                   pre, stored>>

\* The process is killed in the middle of a workflow.
Crash ==
    /\ pc \notin {"idle", "done"}
    /\ pc' = "done"
    /\ outcome' = "killed"
    /\ frame' = [frame EXCEPT !.stage = pc]
    /\ instances' = <<>>
    /\ UNCHANGED <<index, content, host_temp, clipboard, uuid_counter,
                   temp_file, env_count, sink_ok, sent, pre, stored>>

\* A second invocation of the program runs add_code_snippet for Python, from
\* its store_in_repo to its add_to_list, while this one waits at a prompt or
\* stands between writing the temporary file of a delete and copying it over
\* the index.  It has its own instances and its own terminal; the frame
\* notes the snippet it added and where this invocation stood.
other_add_code_snippet(typed_description, typed_tags) ==
    /\ pc \in {"category", "pick", "copyfile"}
    /\ uuid_counter < MaxUuid
    /\ LET n == uuid_counter + 1
           code == Clipboard_get(clipboard)
           made == Snippet_init("CodeSnippet",
                       [description |-> rstrip(typed_description),
                        tags |-> rstrip(typed_tags),
                        category |-> <<"Python">>, prefix |-> None,
                        uuid |-> uuid_hex(n)])
           s == made.snippet
       IN /\ made.err = ""
          /\ content' = CodeSnippet_store_in_repo(content, s, code)
          /\ index' = add_to_list(validate_hierarchy(index), s)
          /\ uuid_counter' = n
          /\ stored' = stored \cup {[uuid |-> s.uuid, payload |-> code]}
          /\ frame' = [frame EXCEPT !.others =
                           @ \cup {[uuid |-> s.uuid, at |-> pc]}]
    /\ UNCHANGED <<host_temp, clipboard, instances, temp_file, env_count,
                   sink_ok, pc, sent, outcome, pre>>

\* The tags prompt closed without a line: Menu.enter yields "".
NextBlankTags ==
    \/ Next
    \/ \E sel \in Selections, payload \in Payloads, d \in EnterInputs :
           add_op_snippet(sel, TRUE, payload, d, <<>>)
    \/ \E l \in LanguageInputs, d \in EnterInputs : add_code_snippet(l, d, <<>>)

SpecBlankTags == Init /\ [][NextBlankTags]_vars

\* Descriptions that hold the delimiter or the quote character of the index
\* files.
QuotedInputs == {<<"a", ";", "b">>, <<"\"", "a">>}

NextQuoted ==
    \/ Next
    \/ \E sel \in Selections, payload \in Payloads, d \in QuotedInputs,
          t \in TagInputs :
           add_op_snippet(sel, TRUE, payload, d, t)
    \/ \E l \in LanguageInputs, d \in QuotedInputs, t \in TagInputs :
           add_code_snippet(l, d, t)

SpecQuoted == Init /\ [][NextQuoted]_vars

NextSink ==
    \/ Next
    \/ \E ok \in BOOLEAN : env_sink(ok)

SpecSink == Init /\ [][NextSink]_vars

NextRace ==
    \/ Next
    \/ \E t \in TagInputs : other_add_code_snippet(<<"a">>, t)

SpecRace == Init /\ [][NextRace]_vars

NextMissing ==
    \/ Next
    \/ \E c \in Touched : env_unlink_index(c)
    \/ \E c \in Touched, n \in 1..MaxUuid : env_unlink_content(c, uuid_hex(n))

SpecMissing == Init /\ [][NextMissing]_vars

NextEdited ==
    \/ Next
    \/ \E e \in HandWritten : env_append_line(e.file, e.line)

SpecEdited == Init /\ [][NextEdited]_vars

NextCrash ==
    \/ Next
    \/ Crash

SpecCrash == Init /\ [][NextCrash]_vars


(***************************************************************************)
(* Vocabulary of the properties.                                           *)
(***************************************************************************)
\* The rows of an index file, decoded.
rows(lines) == [i \in 1..Len(lines) |-> readrow(lines[i])]

\* The identifiers in the rows of an index file.
row_ids(lines) == {readrow(lines[i])[5] : i \in 1..Len(lines)}

\* The names of the files of a directory.
file_names(dir) == {f.name : f \in dir}

\* The workflow has ended by returning to its caller.
Completed(workflow) ==
    pc = "done" /\ frame.workflow = workflow /\ outcome = "returned"

Notified(msg) == \E i \in 1..Len(sent) : sent[i].msg = msg

\* List+Fetch has delivered a snippet; Delete has removed one.
Fetched == Completed("get_snippet") /\ frame.pos > 0 /\ Notified(SNIPPET_FETCHED)

Deleted == Completed("del_snippet") /\ frame.pos > 0 /\ Notified(SNIPPET_DELETED)

\* What a fetch of s leaves for the user: the host's exchange file of s's
\* prefix, or the clipboard.
Delivered(s) ==
    IF s.cls = "OpSnippet" THEN read_file(host_temp, copy_cpio(s.prefix))
    ELSE clipboard

\* The payload Create stored under an identifier.
StoredPayload(uuid) == (CHOOSE e \in stored : e.uuid = uuid).payload

(***************************************************************************)
(* C1.  Index/content consistency.                                         *)
(***************************************************************************)
\* C1: whenever no workflow is under way (the process is idle or a workflow
\* has just ended), starting from the bootstrapped empty repository and after
\* any sequence of Create (structural), Create (text), List+Fetch and Delete,
\* for every category c the set of identifiers in the rows of c.csv equals
\* the set of file names in the directory c.
C1_IndexContentConsistency ==
    pc \in {"idle", "done"} =>
        \A c \in ALL_CATEGORIES :
            row_ids(index[c].lines) = file_names(content[c])

\* A Delete has completed and a snippet of another Create is still stored.
C1_Witness ==
    /\ Deleted
    /\ \E c \in ALL_CATEGORIES : index[c].lines # <<>> /\ content[c] # {}

C3_Original ==
    Deleted =>
        /\ get_by_description(instances, frame.self.description) = 0
        /\ frame.self.uuid \notin row_ids(index[frame.self.category].lines)

\* C3, amended: after Delete of s has completed, no row of the category's
\* index file and no snippet of the catalog has s's identifier;
\* get_by_description of s.description returns None exactly when no other
\* row of the index had s's description, and otherwise returns another
\* snippet, the first one left with that description.
C3_DeletedIsGone ==
    Deleted =>
        LET s == frame.self
            k == get_by_description(instances, s.description)
            old == rows(frame.before)
            shared == \E i \in 1..Len(old) :
                          old[i][1] = s.description /\ old[i][5] # s.uuid
        IN /\ s.uuid \notin row_ids(index[s.category].lines)
           /\ \A i \in 1..Len(instances) : instances[i].uuid # s.uuid
           /\ (k = 0) <=> ~shared
           /\ k > 0 => instances[k].uuid # s.uuid

\* A Delete has completed, the lookup of the description finds nothing and
\* another snippet is still in the catalog.
C3_Witness ==
    /\ Deleted
    /\ get_by_description(instances, frame.self.description) = 0
    /\ instances # <<>>

(***************************************************************************)
(* C4.  The index rewrite of Snippet.delete.                               *)
(***************************************************************************)
\* Snippet.delete has copied the whole temporary file over the index.
RewriteDone ==
    \/ pc = "copying" /\ frame.copied = Len(temp_file.lines)
    \/ pc \in {"remove", "notify"}
    \/ /\ pc = "done"
       /\ frame.workflow = "del_snippet"
       /\ frame.pos > 0
       /\ outcome \in {"returned", "FileNotFoundError"}

C5_AtomicRewrite ==
    (/\ pc = "done"
     /\ outcome = "killed"
     /\ frame.workflow = "del_snippet"
     /\ frame.stage \in {"copyfile", "copying"}) =>
        index[frame.self.category].lines \in {frame.before, temp_file.lines}

(***************************************************************************)
(* C6.  What a successful Create (structural) writes.                      *)
(***************************************************************************)
\* add_op_snippet has stored a snippet.
Added == Completed("add_op_snippet") /\ Notified(SNIPPET_ADDED)

\* How often x occurs in a sequence.
occurrences(x, seq) == Cardinality({i \in 1..Len(seq) : seq[i] = x})

\* C6: after a successful Create (structural) in category c with description
\* d and tag string t, c.csv is what it was plus one last row whose fields
\* are d, the tags of t (split at commas, trimmed, in ascending order,
\* comma-joined), c, the registry prefix of c and an identifier no row and
\* no content file had; the directory c is what it was plus one file of that
\* name, a gzip stream of the host's payload; no other index file and no
\* other directory has changed.
C6_CreateStructural ==
    Added =>
        LET c == frame.category
            old == pre.index[c].lines
            new == index[c].lines
            row == readrow(new[Len(new)])
            id == row[5]
            parts == split(row[2], ",")
            typed == split(frame.tags, ",")
            payload == read_file(host_temp, copy_cpio(PREFIXES[c]))
            file == CHOOSE f \in content[c] : f.name = id
        IN /\ Len(new) = Len(old) + 1
           /\ SubSeq(new, 1, Len(old)) = old
           /\ Len(row) = 5
           /\ row[1] = frame.description
           /\ row[3] = c
           /\ row[4] = PREFIXES[c]
           /\ Len(parts) = Len(typed)
           /\ \A i \in 1..Len(parts) :
                  /\ strip(parts[i]) = parts[i]
                  /\ occurrences(parts[i], parts)
                         = Cardinality({j \in 1..Len(typed) :
                                           strip(typed[j]) = parts[i]})
                  /\ \A j \in (i + 1)..Len(parts) : ~str_less(parts[j], parts[i])
           /\ frame.tags = <<"b", ",", " ", "a">> => row[2] = <<"a", ",", "b">>
           /\ \A k \in ALL_CATEGORIES :
                  /\ id \notin row_ids(pre.index[k].lines)
                  /\ id \notin file_names(pre.content[k])
                  /\ k # c => index[k] = pre.index[k] /\ content[k] = pre.content[k]
           /\ content[c] = pre.content[c] \cup {file}
           /\ file.data[1] = GZIP_MAGIC
           /\ file.data # payload
           /\ gzip_decompress(file.data) = payload

\* A Create (structural) has succeeded in a category that had a row.
C6_Witness ==
    /\ Added
    /\ pre.index[frame.category].lines # <<>>
    /\ frame.tags = <<"b", ",", " ", "a">>

(***************************************************************************)
(* C7.  List+Fetch on an empty category.                                   *)
(***************************************************************************)
\* C7: a List+Fetch whose chosen category has an existing, empty index file
\* ends with the one message "category empty", without having shown the
\* snippet prompt and with every index file, every content directory, the
\* clipboard and the host's temporary directory as they were; the snippet
\* prompt is shown only for an index file that has rows.
C7_EmptyCategory ==
    /\ (/\ pc = "done"
        /\ frame.workflow = "get_snippet"
        /\ frame.category \in ALL_CATEGORIES
        /\ pre.index[frame.category] = EmptyFile) =>
           /\ outcome = "returned"
           /\ sent = <<[msg |-> CAT_EMPTY, severity |-> 0, channel |-> "all"]>>
           /\ frame.lines = <<>>
           /\ frame.choice = 0
           /\ index = pre.index
           /\ content = pre.content
           /\ clipboard = pre.clipboard
           /\ host_temp = pre.host_temp
           /\ temp_file = NoFile
    /\ (pc = "pick" /\ frame.workflow = "get_snippet") =>
           index[frame.category].lines # <<>>

\* List+Fetch has ended on an empty category while the repository holds a
\* snippet elsewhere and the catalog of the workflow before was not empty.
C7_Witness ==
    /\ pc = "done"
    /\ frame.workflow = "get_snippet"
    /\ frame.category \in ALL_CATEGORIES
    /\ pre.index[frame.category] = EmptyFile
    /\ pre.instances # <<>>
    /\ \E c \in ALL_CATEGORIES : content[c] # {}

(***************************************************************************)
(* C8.  Delete on a category without an index file.                        *)
(***************************************************************************)
\* C8: a Delete on a category whose index file did not exist when it was
\* invoked reports the missing index and leaves every index file, every
\* content directory and the temporary file as they were.
C8_DeleteMissingIndex ==
    (/\ pc = "done"
     /\ frame.workflow = "del_snippet"
     /\ frame.category \in ALL_CATEGORIES
     /\ ~pre.index[frame.category].exists) =>
        /\ Notified(CSV_MISSING)
        /\ index = pre.index
        /\ content = pre.content
        /\ temp_file = NoFile

(***************************************************************************)
(* C9.  Snippets that share a description.                                 *)
(***************************************************************************)
\* The description looked up for the line picked at the snippet prompt.
looked_up == picked_description(frame.lines[frame.choice] \o <<"\n">>)

\* The position of the first line whose row has description d.
first_row(lines, d) ==
    CHOOSE i \in 1..Len(lines) :
        /\ readrow(lines[i])[1] = d
        /\ \A j \in 1..(i - 1) : readrow(lines[j])[1] # d

\* A sequence without its p-th element.
without(seq, p) ==
    [i \in 1..(Len(seq) - 1) |-> IF i < p THEN seq[i] ELSE seq[i + 1]]

\* C9: at the snippet prompt the catalog holds one snippet per row of the
\* index file, in the order of the rows; a fetch delivers the payload of, and
\* a Delete removes the row and the content file of, the first row of the
\* file whose description is the one looked up, whether or not later rows
\* share it.
C9_FirstMatch ==
    /\ pc = "pick" =>
           LET r == rows(index[frame.category].lines)
           IN /\ Len(instances) = Len(r)
              /\ \A i \in 1..Len(r) :
                     /\ instances[i].description = r[i][1]
                     /\ instances[i].uuid = r[i][5]
    /\ Fetched =>
           LET lines == index[frame.category].lines
               p == first_row(lines, looked_up)
               id == readrow(lines[p])[5]
           IN /\ frame.pos = p
              /\ frame.self.uuid = id
              /\ Delivered(frame.self) = StoredPayload(id)
    /\ Deleted =>
           LET lines == frame.before
               p == first_row(lines, looked_up)
               id == readrow(lines[p])[5]
           IN /\ frame.pos = p
              /\ frame.self.uuid = id
              /\ rows(index[frame.category].lines) = without(rows(lines), p)
              /\ file_names(content[frame.category])
                     = file_names(pre.content[frame.category]) \ {id}

\* Two rows share their description, the user picked the second line and
\* Delete removed the first row.
C9_Witness ==
    /\ Deleted
    /\ frame.choice = 2
    /\ frame.pos = 1
    /\ Len(frame.before) = 2
    /\ readrow(frame.before[1])[1] = readrow(frame.before[2])[1]
    /\ readrow(frame.before[1])[5] # readrow(frame.before[2])[5]

(***************************************************************************)
(* C10.  What the constructor refuses.                                     *)
(***************************************************************************)
\* The closed set of categories of a class.
variant_set(cls) == IF cls = "OpSnippet" THEN CATEGORIES ELSE LANGUAGES

\* The class a workflow constructs for a row of the chosen category's index.
loaded_class(workflow, category, row) ==
    IF workflow = "get_snippet"
    THEN IF row[3] \in CATEGORIES THEN "OpSnippet" ELSE "CodeSnippet"
    ELSE IF category \in CATEGORIES THEN "OpSnippet" ELSE "CodeSnippet"

\* A workflow has ended while it loaded the catalog.
LoadEnded ==
    /\ pc = "done"
    /\ frame.workflow \in {"get_snippet", "del_snippet"}
    /\ frame.category \in ALL_CATEGORIES
    /\ frame.lines = <<>>

\* C10: every snippet of the catalog has a non-empty description and a
\* category of the closed set of its class; and a load of the catalog ends at
\* the first row whose description is empty, with DescriptionRequired, or
\* whose category is outside the set of the class constructed for it, with
\* InvalidCategory, the catalog holding the rows before it; without such a
\* row the load raises neither.
C10_ConstructorValidation ==
    /\ \A i \in 1..Len(instances) :
           /\ instances[i].description # <<>>
           /\ instances[i].category \in variant_set(instances[i].cls)
    /\ LoadEnded =>
           LET r == rows(index[frame.category].lines)
               cls(i) == loaded_class(frame.workflow, frame.category, r[i])
               bad == {i \in 1..Len(r) :
                          r[i][1] = <<>> \/ r[i][3] \notin variant_set(cls(i))}
           IN IF bad = {}
              THEN outcome \notin {"DescriptionRequired", "InvalidCategory"}
              ELSE LET k == CHOOSE i \in bad : \A j \in bad : i <= j
                   IN /\ outcome = IF r[k][1] = <<>> THEN "DescriptionRequired"
                                   ELSE "InvalidCategory"
                      /\ Len(instances) = k - 1

\* A load has kept the row written by a Create and stopped at a row of a
\* category its class does not take.
C10_Witness ==
    /\ LoadEnded
    /\ outcome = "InvalidCategory"
    /\ Len(instances) = 1

(***************************************************************************)
(* C11.  Prefix and category agree.                                        *)
(***************************************************************************)
\* The prefix the registry gives a category: its label when the category is
\* structural and mapped, the empty text otherwise.
registry_prefix(category) ==
    IF category \in CATEGORIES /\ PREFIXES[category] # None
    THEN PREFIXES[category] ELSE <<>>

\* C11: in every state, every snippet of the catalog and every row of every
\* index file has the registry's prefix of its category when the category is
\* structural (the empty text when the registry maps it to None) and the
\* empty text when the category is textual.
C11_PrefixConsistency ==
    /\ \A i \in 1..Len(instances) :
           instances[i].category \in ALL_CATEGORIES
               => instances[i].prefix = registry_prefix(instances[i].category)
    /\ \A c \in ALL_CATEGORIES :
           \A i \in 1..Len(index[c].lines) :
               LET r == readrow(index[c].lines[i])
               IN /\ Len(r) = 5
                  /\ r[3] \in ALL_CATEGORIES => r[4] = registry_prefix(r[3])

\* The catalog holds a structural snippet with its label while a textual
\* row is on disk.
C11_Witness ==
    /\ \E i \in 1..Len(instances) :
           instances[i].cls = "OpSnippet" /\ instances[i].prefix = <<"SOP">>
    /\ index[<<"Python">>].lines # <<>>
    /\ readrow(index[<<"Python">>].lines[1])[4] = <<>>

(***************************************************************************)
(* C12.  The prefix Create (structural) resolves.                          *)
(***************************************************************************)
\* add_op_snippet has ended after it resolved the prefix of its category.
Resolved ==
    /\ pc = "done"
    /\ frame.workflow = "add_op_snippet"
    /\ frame.category \in CATEGORIES
    /\ ~Notified(SEL_EMPTY)
    /\ ~Notified(SEL_TIP)

\* C12: the prefix add_op_snippet resolves for a valid structural category
\* is the registry's value of the category: its label, or None for the
\* categories the registry maps to None.
C12_ResolvedPrefix == Resolved => frame.prefix = PREFIXES[frame.category]

(***************************************************************************)
(* C13.  Identifiers are unique.                                           *)
(***************************************************************************)
\* C13: in every state, no two rows of the index files, of one category or
\* of two, have the same identifier, and no two content files of the
\* repository have the same name.
C13_UniqueIdentifiers ==
    /\ \A c \in ALL_CATEGORIES :
           /\ Cardinality(row_ids(index[c].lines)) = Len(index[c].lines)
           /\ Cardinality(file_names(content[c])) = Cardinality(content[c])
    /\ LET listed == {c \in ALL_CATEGORIES : index[c].lines # <<>>}
           filled == {c \in ALL_CATEGORIES : content[c] # {}}
       IN /\ \A c, k \in listed :
                 c # k => row_ids(index[c].lines)
                              \cap row_ids(index[k].lines) = {}
          /\ \A c, k \in filled :
                 c # k => file_names(content[c])
                              \cap file_names(content[k]) = {}

\* Two snippets are stored, one in a structural and one in a textual
\* category, each with its row and its content file.
C13_Witness ==
    /\ index[<<"Sop">>].lines # <<>>
    /\ index[<<"Python">>].lines # <<>>
    /\ content[<<"Sop">>] # {}
    /\ content[<<"Python">>] # {}

(***************************************************************************)
(* C14.  A prompt that yields the empty string.                            *)
(***************************************************************************)
\* A workflow has ended after its command, category, description or snippet
\* prompt yielded "".
Cancelled ==
    /\ pc = "done"
    /\ \/ frame.workflow = "main" /\ ~Notified(CMD_INVALID)
       \/ Resolved /\ frame.description = <<>>
       \/ /\ frame.workflow = "add_code_snippet"
          /\ \/ frame.category = <<>>
             \/ frame.category \in LANGUAGES /\ frame.description = <<>>
       \/ /\ frame.workflow \in {"get_snippet", "del_snippet"}
          /\ \/ frame.category = <<>>
             \/ frame.lines # <<>> /\ frame.choice = 0

\* A Create has ended after its tags prompt yielded "".
TagsBlank ==
    /\ pc = "done"
    /\ \/ Resolved
       \/ frame.workflow = "add_code_snippet" /\ frame.category \in LANGUAGES
    /\ frame.description # <<>>
    /\ frame.tags = <<>>

\* The workflow returned and left every index file and content directory.
Untouched ==
    /\ outcome = "returned"
    /\ index = pre.index
    /\ content = pre.content

\* C14 as stated: a workflow in which any prompt, the tags prompt included,
\* yielded "" returns normally with no index row and no content file added,
\* changed or removed.
C14_Original == (Cancelled \/ TagsBlank) => Untouched

\* C14, amended: a workflow whose command, category, description or snippet
\* prompt yielded "" returns normally with every index file and content
\* directory as it was; a tags prompt that yields "" does not end the Create,
\* which, when it returns, has stored one more row, with an empty tags field,
\* and one more content file.
C14_CancelAborts ==
    /\ Cancelled => Untouched
    /\ (TagsBlank /\ outcome = "returned") =>
           LET c == frame.category
               new == index[c].lines
           IN /\ Notified(SNIPPET_ADDED)
              /\ Len(new) = Len(pre.index[c].lines) + 1
              /\ readrow(new[Len(new)])[2] = <<>>
              /\ Cardinality(content[c]) = Cardinality(pre.content[c]) + 1

\* The snippet prompt of a Delete was closed while a snippet was listed.
C14_Witness ==
    /\ Cancelled
    /\ frame.workflow = "del_snippet"
    /\ frame.lines # <<>>
    /\ frame.choice = 0
    /\ content[frame.category] # {}

(***************************************************************************)
(* C15.  Cancelling is silent.                                             *)
(***************************************************************************)
\* C15: a workflow in which a prompt yielded "" ends without a message to
\* the notification sink.
C15_SilentCancel == Cancelled => sent = <<>>

(***************************************************************************)
(* C16.  The notification sink is observational.                           *)
(***************************************************************************)
\* C16: no workflow ends with the error of the notification command, and a
\* workflow that notified its success has returned normally, whether
\* notify-send succeeds or fails.
C16_SinkObservational ==
    pc = "done" =>
        /\ outcome # "CalledProcessError"
        /\ (\/ Notified(SNIPPET_ADDED)
            \/ Notified(SNIPPET_FETCHED)
            \/ Notified(SNIPPET_DELETED)) => outcome = "returned"

(***************************************************************************)
(* C17.  From the line picked to the snippet.                              *)
(***************************************************************************)
\* A Fetch or a Delete is past its snippet prompt, where a line was picked.
Picked ==
    /\ pc \in {"copyfile", "copying", "remove", "notify", "done"}
    /\ frame.workflow \in {"get_snippet", "del_snippet"}
    /\ frame.choice > 0

\* C17: picking the line shown for a snippet s maps to a snippet of the
\* catalog, never to none, and that snippet has s's description.
C17_PickFindsSnippet ==
    Picked =>
        /\ frame.pos > 0
        /\ frame.self # NoSnippet
        /\ frame.self.description = frame.picked.description

(***************************************************************************)
(* C18.  The catalog at the snippet prompt.                                *)
(***************************************************************************)
\* C18: when the snippet prompt of a Fetch or a Delete is shown, the catalog
\* holds exactly one snippet per row of the chosen category's index file, in
\* the order of the rows and with the fields of its row, and no snippet that
\* an earlier workflow left in it.
C18_FreshCatalog ==
    pc = "pick" =>
        LET r == rows(index[frame.category].lines)
        IN /\ frame.workflow \in {"get_snippet", "del_snippet"}
           /\ Len(instances) = Len(r)
           /\ \A i \in 1..Len(r) :
                  /\ instances[i].description = r[i][1]
                  /\ instances[i].tags = tags_setter(r[i][2])
                  /\ instances[i].category = r[i][3]
                  /\ instances[i].prefix = r[i][4]
                  /\ instances[i].uuid = r[i][5]
           /\ \A i \in 1..Len(pre.instances) :
                  pre.instances[i].category # frame.category =>
                      \A j \in 1..Len(instances) :
                          instances[j] # pre.instances[i]

\* The snippet prompt shows the row of a category while the catalog the
\* workflow before left held a snippet of another category.
C18_Witness ==
    /\ pc = "pick"
    /\ Len(instances) = 1
    /\ pre.instances # <<>>
    /\ pre.instances[1].category # frame.category

(***************************************************************************)
(* C19.  The order of the steps of Delete.                                 *)
(***************************************************************************)
\* A Delete is past its snippet prompt with a snippet found for the line.
Deleting ==
    /\ pc \in {"copyfile", "copying", "remove", "notify", "done"}
    /\ frame.workflow = "del_snippet"
    /\ frame.pos > 0

\* The four effects of the Delete under way.
IndexRewritten ==
    LET differs(r) == r[5] # frame.self.uuid
    IN rows(index[frame.self.category].lines)
           = SelectSeq(rows(frame.before), differs)

ContentRemoved == ~path_exists(content[frame.self.category], frame.self.uuid)

CatalogRemoved == \A i \in 1..Len(instances) : instances[i] # frame.self

DeleteNotified == Notified(SNIPPET_DELETED)

\* C19: Delete rewrites the index, then removes the content file, then
\* removes the snippet from the catalog, then notifies: no effect is there
\* before the one ahead of it, each step adds exactly its own effect, and a
\* Delete that has notified has all four.
C19_DeleteOrder ==
    Deleting =>
        /\ ContentRemoved => IndexRewritten
        /\ CatalogRemoved => ContentRemoved
        /\ DeleteNotified => CatalogRemoved
        /\ pc = "copyfile" => ~ContentRemoved
        /\ pc = "remove" => ContentRemoved /\ ~CatalogRemoved
        /\ pc = "notify" => CatalogRemoved /\ ~DeleteNotified
        /\ (pc = "done" /\ outcome = "returned") => DeleteNotified

\* The index is rewritten and the content file is gone while the snippet is
\* still in the catalog and nothing has been notified.
C19_Witness ==
    /\ Deleting
    /\ pc = "remove"
    /\ IndexRewritten
    /\ ContentRemoved
    /\ ~CatalogRemoved
    /\ ~DeleteNotified
    /\ frame.before # <<>>

(***************************************************************************)
(* C20.  The host left no exchange file.                                   *)
(***************************************************************************)
\* A Create (structural) of a category with a prefix has ended past its
\* description prompt, and the host wrote no exchange file during it.
NotProduced ==
    /\ Resolved
    /\ PREFIXES[frame.category] # None
    /\ frame.description # <<>>
    /\ ~frame.produced

\* C20: a Create (structural) during which the host produced no exchange file
\* ends with SourceMissing, reported to the notification sink, and leaves
\* every index file and content directory as it was.
C20_SourceMissing ==
    NotProduced =>
        /\ outcome = "SourceMissing"
        /\ Notified(SOURCE_MISSING)
        /\ index = pre.index
        /\ content = pre.content

(***************************************************************************)
(* C21.  The content file vanished before the fetch.                       *)
(***************************************************************************)
\* The step of List+Fetch from the snippet prompt in which the snippet found
\* for the line picked has no content file.
FetchOfVanished ==
    /\ pc = "pick"
    /\ frame.workflow = "get_snippet"
    /\ pc' = "done"
    /\ frame'.pos > 0
    /\ ~path_exists(content[frame'.self.category], frame'.self.uuid)

\* C21: a List+Fetch whose picked snippet has lost its content file since
\* the index was scanned ends with SourceMissing or ContentMissing after one
\* message that reports the missing file; it leaves the clipboard and the
\* host's exchange file as they were, sends no "fetched" message and leaves
\* every index file and content directory unchanged.
C21_FetchOfVanished ==
    [][FetchOfVanished =>
          /\ outcome' \in {"SourceMissing", "ContentMissing"}
          /\ Len(sent') = Len(sent) + 1
          /\ sent'[Len(sent')].msg \in {SOURCE_MISSING, FILE_MISSING}
          /\ sent'[Len(sent')].severity = 3
          /\ \A i \in 1..Len(sent') : sent'[i].msg # SNIPPET_FETCHED
          /\ clipboard' = clipboard
          /\ host_temp' = host_temp
          /\ index' = index
          /\ content' = content]_vars

\* A fetch of a text snippet has ended with ContentMissing: the content file
\* was there when the workflow began.
C21_Witness ==
    /\ pc = "done"
    /\ frame.workflow = "get_snippet"
    /\ frame.pos > 0
    /\ outcome = "ContentMissing"
    /\ path_exists(pre.content[frame.self.category], frame.self.uuid)
    /\ ~path_exists(content[frame.self.category], frame.self.uuid)

(***************************************************************************)
(* C22.  A Create of another invocation during a Delete.                   *)
(***************************************************************************)
\* The snippets another invocation added to the category of the running
\* Delete after (late) or before (early) the Delete read the index file.
LateCreates ==
    {o.uuid : o \in {x \in frame.others : x.at = "copyfile"}}

EarlyCreates ==
    {o.uuid : o \in {x \in frame.others : x.at \in {"category", "pick"}}}

\* C22: without locking, a Create of another invocation that appends its row
\* after the Delete has read the index file and before the Delete copies its
\* temporary file over it has completed, yet once the Delete has completed
\* its row is absent from the index file while its content file exists; a
\* Create that appended its row before the Delete read the file keeps it.
C22_LostWrite ==
    (Deleted /\ frame.category = <<"Python">>) =>
        /\ \A u \in LateCreates :
               /\ u \notin row_ids(index[frame.category].lines)
               /\ path_exists(content[frame.category], u)
               /\ \E e \in stored : e.uuid = u
        /\ \A u \in EarlyCreates :
               u # frame.self.uuid =>
                   /\ u \in row_ids(index[frame.category].lines)
                   /\ path_exists(content[frame.category], u)

\* A Delete in Python has completed, and the snippet that another invocation
\* created meanwhile has its content file and no row.
C22_Witness ==
    /\ Deleted
    /\ frame.category = <<"Python">>
    /\ \E u \in LateCreates :
           /\ u \notin row_ids(index[frame.category].lines)
           /\ path_exists(content[frame.category], u)

(***************************************************************************)
(* C23.  Delete on an index file that is empty.                            *)
(***************************************************************************)
\* A Delete is past its snippet prompt and Snippet.delete found the index
\* file of the category empty when it read it.
EmptyBefore ==
    /\ Deleting
    /\ frame.before = <<>>
    /\ pc = "done" => outcome \in {"returned", "FileNotFoundError"}

\* Such a Delete has sent CSV_EMPTY with the severity given and goes on: the
\* index file stays empty, then the content file is removed, then the
\* snippet leaves the catalog, then the deletion is notified.
EmptyIndexDelete(severity) ==
    EmptyBefore =>
        /\ \E i \in 1..Len(sent) :
               sent[i].msg = CSV_EMPTY /\ sent[i].severity = severity
        /\ index[frame.self.category] = EmptyFile
        /\ pc = "remove" => ContentRemoved /\ ~CatalogRemoved
        /\ pc = "notify" => ContentRemoved /\ CatalogRemoved
        /\ (pc = "done" /\ outcome = "returned") =>
               ContentRemoved /\ CatalogRemoved /\ DeleteNotified

\* C23 as stated: a Snippet.delete that finds the index file empty notifies
\* a warning (severity 2) and proceeds as in the non-empty case.
C23_Original == EmptyIndexDelete(2)

\* C23, amended: a Snippet.delete that finds the index file empty notifies
\* CSV_EMPTY at severity 4 (fatal) and still proceeds: the rewrite leaves the
\* index file empty, the content file is removed, the snippet leaves the
\* catalog and the deletion is notified.
C23_EmptyIndexDelete == EmptyIndexDelete(4)

\* The index file was removed while the snippet prompt was open; the Delete
\* of the picked snippet completed all the same.
C23_Witness ==
    /\ EmptyBefore
    /\ Deleted
    /\ pre.index[frame.self.category].lines # <<>>
    /\ path_exists(pre.content[frame.self.category], frame.self.uuid)
    /\ ContentRemoved

(***************************************************************************)
(* C24.  The lines of the snippet prompt.                                  *)
(***************************************************************************)
\* C24: the snippet prompt shows one line per snippet of the catalog, in the
\* order of the catalog; a line is the first max_desc_len characters of the
\* description, padded, then '|', then at most max_tags_len characters of the
\* comma-joined tags.
C24_RenderAll ==
    pc = "pick" =>
        /\ Len(frame.lines) = Len(instances)
        /\ \A i \in 1..Len(instances) :
               LET line == frame.lines[i]
                   snippet == instances[i]
                   space == max_desc_len + 2
                   tags == SubSeq(line, space + 2, Len(line))
               IN /\ Len(line) > space
                  /\ SubSeq(line, 1, space)
                         = ljust(slice(snippet.description, max_desc_len), space)
                  /\ line[space + 1] = "|"
                  /\ Len(tags) <= max_tags_len
                  /\ tags = slice(join(snippet.tags, ","), max_tags_len)

others_in(dir, name) == {f \in dir : f.name # name}

\* C26: from its start to its end, a Delete of a snippet s of category c
\* leaves the index file and the content files of every other category as
\* they were, and every content file of c but the one named s.identifier;
\* until a snippet is picked it leaves all of them.
C26_DeleteFrame ==
    (frame.workflow = "del_snippet" /\ pc # "idle") =>
        /\ \A d \in ALL_CATEGORIES :
               (frame.pos = 0 \/ d # frame.self.category) =>
                   /\ index[d] = pre.index[d]
                   /\ content[d] = pre.content[d]
        /\ frame.pos > 0 =>
               /\ frame.self.category = frame.category
               /\ others_in(content[frame.category], frame.self.uuid)
                      = others_in(pre.content[frame.category], frame.self.uuid)

\* A Delete has completed in a category that holds another snippet.
C26_Witness ==
    /\ Deleted
    /\ ~path_exists(content[frame.category], frame.self.uuid)
    /\ others_in(content[frame.category], frame.self.uuid) # {}
    /\ index[frame.category].lines # pre.index[frame.category].lines

(***************************************************************************)
(* C27.  Delete of a snippet whose content file is absent.                 *)
(***************************************************************************)
\* A Delete has ended with the error of snippet_file.unlink().
PartialDelete ==
    /\ pc = "done"
    /\ frame.workflow = "del_snippet"
    /\ frame.pos > 0
    /\ outcome = "FileNotFoundError"

\* C27: a Delete that ends with the file-not-found error of the unlink found
\* no content file for the picked snippet, and raised only after the rewrite
\* of the index: the snippet's row is gone from the index file, the other
\* rows are kept, the snippet is still in the catalog and no "deleted"
\* message was sent.
C27_PartialDelete ==
    PartialDelete =>
        /\ ~path_exists(content[frame.category], frame.self.uuid)
        /\ frame.self.uuid \notin row_ids(index[frame.category].lines)
        /\ IndexRewritten
        /\ ~CatalogRemoved
        /\ instances[frame.pos] = frame.self
        /\ ~DeleteNotified

\* The content file was removed while the Delete waited at a prompt; the
\* index file had the snippet's row and has lost it.
C27_Witness ==
    /\ PartialDelete
    /\ frame.self.uuid \in row_ids(pre.index[frame.category].lines)
    /\ frame.self.uuid \in row_ids(frame.before)
    /\ frame.self.uuid \notin row_ids(index[frame.category].lines)
    /\ path_exists(pre.content[frame.category], frame.self.uuid)

(***************************************************************************)
(* C28.  Round trip of an index row.                                       *)
(***************************************************************************)
\* A Create, structural or text, has stored a snippet.
Persisted ==
    /\ pc = "done"
    /\ frame.workflow \in {"add_op_snippet", "add_code_snippet"}
    /\ outcome = "returned"
    /\ Notified(SNIPPET_ADDED)

\* C28: the row Create appended for its snippet s, read again as List+Fetch
\* reads it and as Delete reads it, yields one snippet with s's description,
\* s's sorted tag list, s's category, s's prefix and s's identifier; and
\* joining s's tags with commas and decoding the string (split, trim, sort)
\* gives s's tags again.
C28_RowRoundTrip ==
    Persisted =>
        LET s == instances[Len(instances)]
            lines == index[s.category].lines
            line == lines[Len(lines)]
            fetch == get_snippet_load(<<line>>, <<>>)
            delete == del_snippet_load(<<line>>, s.category, <<>>)
            same(t) == /\ t.description = s.description
                       /\ t.tags = s.tags
                       /\ t.category = s.category
                       /\ t.prefix = s.prefix
                       /\ t.uuid = s.uuid
        IN /\ s.description = frame.description
           /\ s.category = frame.category
           /\ fetch.err = ""
           /\ Len(fetch.instances) = 1
           /\ same(fetch.instances[1])
           /\ delete.err = ""
           /\ Len(delete.instances) = 1
           /\ same(delete.instances[1])
           /\ tags_setter(join(s.tags, ",")) = s.tags
           /\ sorted(s.tags) = s.tags

\* The snippet stored has a description with the delimiter in it and two
\* tags; its row is written with a quoted field.
C28_Witness ==
    /\ Persisted
    /\ \E i \in 1..Len(frame.description) : frame.description[i] = delimiter
    /\ Len(instances[Len(instances)].tags) = 2
    /\ LET lines == index[frame.category].lines
       IN lines[Len(lines)][1] = quotechar

(***************************************************************************)
(* C29.  A construction that fails registers nothing.                      *)
(***************************************************************************)
\* A workflow has ended with an error of a setter of the constructor.
Rejected ==
    /\ pc = "done"
    /\ outcome \in {"DescriptionRequired", "InvalidCategory", "PrefixInvalid"}

\* The constructor call a load makes for a row.
row_init(row) ==
    Snippet_init(loaded_class(frame.workflow, frame.category, row),
                 [description |-> row[1], tags |-> row[2], category |-> row[3],
                  prefix |-> row[4], uuid |-> row[5]])

\* C29: the catalog never holds an object that fails the validation of its
\* description, its category or its prefix.  A Create whose construction
\* fails leaves the catalog as it was; a load whose construction fails at a
\* row leaves in the catalog the objects built from the rows before it, and
\* not the rejected one.
C29_RejectedNotRegistered ==
    /\ \A i \in 1..Len(instances) :
           /\ description_setter(instances[i].description) = ""
           /\ instances[i].category \in variant_set(instances[i].cls)
           /\ instances[i].prefix \in PREFIX_VALUES \cup {<<>>}
    /\ Rejected =>
           IF frame.workflow \in {"add_op_snippet", "add_code_snippet"}
           THEN instances = pre.instances
           ELSE LET r == rows(index[frame.category].lines)
                    n == Len(instances)
                IN /\ n < Len(r)
                   /\ row_init(r[n + 1]).err = outcome
                   /\ \A i \in 1..n :
                          /\ row_init(r[i]).err = ""
                          /\ instances[i] = row_init(r[i]).snippet

\* A Create was refused for its prefix while the catalog held a snippet, and
\* the catalog still holds just that snippet.
C29_Witness ==
    /\ Rejected
    /\ outcome = "PrefixInvalid"
    /\ frame.workflow = "add_op_snippet"
    /\ Len(instances) = 1
    /\ instances = pre.instances

====
